---- MODULE Spec2Model ----
(***************************************************************************)
(* Workspace lifecycle manager (services/workspace_manager.py): git        *)
(* branches, linked working trees and the META.yml record of each task.    *)
(*                                                                         *)
(* A Python str is a sequence of symbols.  The symbols that the reduced    *)
(* codec and the path derivation treat specially (quote, colon, newline,   *)
(* space, the ten digits, "-", "/") are single characters; any other       *)
(* symbol stands for a run of ordinary characters ("backlog", "MVP").      *)
(***************************************************************************)
EXTENDS Integers, Sequences, FiniteSets, TLC

\* ------------------------------------------------------------------ bounds

\* The wall clock (datetime.utcnow) is read as a value in 0..MaxClock.
MaxClock == 1
\* At most MaxCalls operations are started in a run.
MaxCalls == 3
\* The commits that land on the main branch from outside.
MaxCommits == 1

\* --------------------------------------------------------------- symbols

DQ == "\""
NL == "\n"
SP == " "
COLON == ":"
DigitSyms == <<"0", "1", "2", "3", "4", "5", "6", "7", "8", "9">>
Whitespace == {SP, NL}

IsDigitSym(c) == \E i \in 1..10 : DigitSyms[i] = c
DigitVal(c) == (CHOOSE i \in 1..10 : DigitSyms[i] = c) - 1

\* str.isdigit(): non-empty and every character a digit.
IsDigit(s) == Len(s) > 0 /\ \A i \in 1..Len(s) : IsDigitSym(s[i])

RECURSIVE NatToStr(_)
NatToStr(n) ==
  IF n < 10 THEN <<DigitSyms[n + 1]>>
  ELSE NatToStr(n \div 10) \o <<DigitSyms[(n % 10) + 1]>>

\* f"{value}" of an int.
IntToStr(n) == IF n < 0 THEN <<"-">> \o NatToStr(0 - n) ELSE NatToStr(n)

RECURSIVE StrToInt(_)
\* int(value) of a digit-only string.
StrToInt(s) ==
  IF s = <<>> THEN 0
  ELSE 10 * StrToInt(SubSeq(s, 1, Len(s) - 1)) + DigitVal(s[Len(s)])

RECURSIVE LStrip(_, _)
LStrip(s, chars) ==
  IF s # <<>> /\ Head(s) \in chars THEN LStrip(Tail(s), chars) ELSE s

RECURSIVE RStrip(_, _)
RStrip(s, chars) ==
  IF s # <<>> /\ s[Len(s)] \in chars
  THEN RStrip(SubSeq(s, 1, Len(s) - 1), chars) ELSE s

\* str.strip(chars); str.strip() is StripChars(s, Whitespace).
StripChars(s, chars) == RStrip(LStrip(s, chars), chars)

\* Index of the first occurrence of c in s, 0 when there is none.
IndexOf(s, c) ==
  IF \E i \in 1..Len(s) : s[i] = c
  THEN CHOOSE i \in 1..Len(s) : s[i] = c /\ \A j \in 1..(i - 1) : s[j] # c
  ELSE 0

RECURSIVE SplitLines(_)
\* str.splitlines()
SplitLines(s) ==
  IF s = <<>> THEN <<>>
  ELSE LET i == IndexOf(s, NL) IN
       IF i = 0 THEN <<s>>
       ELSE <<SubSeq(s, 1, i - 1)>> \o SplitLines(SubSeq(s, i + 1, Len(s)))

RECURSIVE JoinLines(_)
\* "\n".join(lines)
JoinLines(lines) ==
  IF lines = <<>> THEN <<>>
  ELSE IF Len(lines) = 1 THEN lines[1]
  ELSE lines[1] \o <<NL>> \o JoinLines(Tail(lines))

\* str.replace(old, new) for single characters.
Replace(s, old, new) == [i \in 1..Len(s) |-> IF s[i] = old THEN new ELSE s[i]]

\* ---------------------------------------------------------------- values

\* A Python value of the record: a str, an int or None.  Missing is the
\* result of looking up a key a dict does not have.
PyStr(s) == [t |-> "str", s |-> s, n |-> 0]
PyInt(n) == [t |-> "int", s |-> <<>>, n |-> n]
PyNone == [t |-> "null", s |-> <<>>, n |-> 0]
Missing == [t |-> "missing", s |-> <<>>, n |-> 0]

\* ----------------------------------------------------------------- dicts

\* A dict is the sequence of its items in insertion order, keys unique.
Keys(d) == {d[i].k : i \in 1..Len(d)}

DictGet(d, k) ==
  IF k \in Keys(d) THEN d[CHOOSE i \in 1..Len(d) : d[i].k = k].v ELSE Missing

\* d[k] = v: an existing key keeps its position, a new key is appended.
DictSet(d, k, v) ==
  IF k \in Keys(d)
  THEN [i \in 1..Len(d) |-> IF d[i].k = k THEN [k |-> k, v |-> v] ELSE d[i]]
  ELSE Append(d, [k |-> k, v |-> v])

RECURSIVE DictUpdate(_, _)
\* d.update(u)
DictUpdate(d, u) ==
  IF u = <<>> THEN d
  ELSE DictUpdate(DictSet(d, Head(u).k, Head(u).v), Tail(u))

\* Python's == on dicts: the same mapping, whatever the order.
DictEq(a, b) == Keys(a) = Keys(b) /\ \A k \in Keys(a) : DictGet(a, k) = DictGet(b, k)


\* ------------------------------------------------------- metadata codec

\* The content of a META.yml file (or of `git show <branch>:META.yml`).  The
\* reduced codec writes text; yaml.dump's output is kept as the document it
\* denotes, which yaml.safe_load returns.
NoFile == [fmt |-> "none", doc |-> <<>>, text |-> <<>>]

YamlDump(data) == [fmt |-> "yaml", doc |-> data, text |-> <<>>]
YamlSafeLoad(content) == content.doc

\* One line of the reduced encoder.
WriteLine(item) ==
  IF item.v.t = "null" THEN item.k \o <<COLON, SP, "null">>
  ELSE IF item.v.t = "str" THEN item.k \o <<COLON, SP, DQ>> \o item.v.s \o <<DQ>>
  ELSE item.k \o <<COLON, SP>> \o IntToStr(item.v.n)

FallbackDump(data) ==
  [fmt |-> "lines", doc |-> <<>>,
   text |-> JoinLines([i \in 1..Len(data) |-> WriteLine(data[i])])]

_write_yaml(yaml, data) == IF yaml THEN YamlDump(data) ELSE FallbackDump(data)

\* One line of the reduced parser, applied to the dict read so far.
ParseLine(result, line) ==
  LET i == IndexOf(line, COLON) IN
  IF i = 0 THEN result
  ELSE LET key == SubSeq(line, 1, i - 1)
           value == StripChars(StripChars(SubSeq(line, i + 1, Len(line)), Whitespace), {DQ})
           v == IF value = <<"null">> THEN PyNone
                ELSE IF IsDigit(value) THEN PyInt(StrToInt(value))
                ELSE PyStr(value)
       IN DictSet(result, StripChars(key, Whitespace), v)

RECURSIVE ParseLines(_, _)
ParseLines(result, lines) ==
  IF lines = <<>> THEN result
  ELSE ParseLines(ParseLine(result, Head(lines)), Tail(lines))

FallbackParse(content) ==
  ParseLines(<<>>, SplitLines(StripChars(content.text, Whitespace)))

_parse_yaml(yaml, content) ==
  IF yaml THEN YamlSafeLoad(content) ELSE FallbackParse(content)


\* ----------------------------------------------------------------- inputs

Procs == {1, 2}

T1 == <<"t1">>
TaskIds == {T1}
\* Identifiers with a "/" and with a "-" at the same place.
TSlash == <<"a", "/", "b">>
TDash == <<"a", "-", "b">>
Titles == {<<"MVP">>, <<"4", "2">>}
Agents == {<<"cpo">>}

\* The `updates` mappings callers pass to update_meta.
Updates ==
  { <<[k |-> <<"status">>, v |-> PyStr(<<"review">>)],
      [k |-> <<"xp_reward">>, v |-> PyInt(50)]>>,
    <<[k |-> <<"created_at">>, v |-> PyStr(<<"zzz">>)]>>,
    <<[k |-> <<"status">>, v |-> PyStr(<<"completed">>)]>>,
    <<[k |-> <<"agent">>, v |-> PyStr(<<"x", NL, "title", COLON, SP, "y">>)]>> }

\* ------------------------------------------------------------------ state

VARIABLES
  yaml,        \* whether `import yaml` succeeded (module global)
  clock,       \* what datetime.utcnow() returns now
  head,        \* the commit HEAD of the main checkout resolves to
  branches,    \* refs/heads: branch name -> [fork, meta]; meta is META.yml at the tip
  worktrees,   \* directories under BASE_WORKTREE: name -> [branch, file, index]
  calls,       \* operations started so far
  faults,      \* whether commands and file operations may fail for reasons
               \* outside the repository (disk, permissions, lock files)
  proc         \* per calling process: position in the operation, its locals, its result

vars == <<yaml, clock, head, branches, worktrees, calls, faults, proc>>

\* branch = f"feat/{task_id}"
BranchOf(task_id) == <<"feat", "/">> \o task_id
\* worktree = BASE_WORKTREE / branch.replace("/", "-")
WorktreeOf(task_id) == Replace(BranchOf(task_id), "/", "-")

K(name) == <<name>>
Item(name, v) == [k |-> K(name), v |-> v]

\* datetime.utcnow().isoformat()
_now_iso(now) == <<"T", COLON>> \o NatToStr(now)
\* The clock reading an ISO string written by _now_iso denotes.
TsVal(v) == StrToInt(SubSeq(v.s, 3, Len(v.s)))

BranchExists(b) == b \in DOMAIN branches
DirExists(w) == w \in DOMAIN worktrees
CheckedOut(b) == \E w \in DOMAIN worktrees : worktrees[w].branch = b
Without(f, x) == [y \in DOMAIN f \ {x} |-> f[y]]
With(f, x, v) == [y \in DOMAIN f \cup {x} |-> IF y = x THEN v ELSE f[y]]

\* The META.yml file of a working tree, NoFile when the file or the directory is absent.
MetaFileIn(dirs, w) == IF w \in DOMAIN dirs THEN dirs[w].file ELSE NoFile
MetaFile(w) == MetaFileIn(worktrees, w)
\* META.yml at the tip of a branch, NoFile when the branch or the file is absent.
MetaAtTip(b) == IF BranchExists(b) THEN branches[b].meta ELSE NoFile

Idle ==
  [pc |-> "idle", op |-> "none", ret |-> "none", task_id |-> <<>>,
   title |-> <<>>, agent |-> <<>>, updates |-> <<>>, commit |-> TRUE,
   force |-> FALSE, main_branch |-> <<>>, meta |-> <<>>, pre |-> <<>>,
   out |-> <<>>, result |-> <<>>, todo |-> <<>>, cause |-> "none",
   cleanup_failed |-> FALSE]

\* The operation of a process returns or raises: its arguments and locals are
\* dropped; which operation it was, on which task, what it returned or raised
\* (for WorkspaceCreationError: the command whose failure is its cause, and
\* whether a cleanup command failed; for list_workspaces: the command whose
\* failure it swallowed) stay until the process's next call.
Return(r, outcome) ==
  [Idle EXCEPT !.op = r.op, !.ret = outcome, !.task_id = r.task_id,
               !.out = r.out, !.result = r.result,
               !.cause = r.cause, !.cleanup_failed = r.cleanup_failed]

Goto(p, label) == proc' = [proc EXCEPT ![p].pc = label]

\* A command of create raises CalledProcessError: the except clause (lines
\* 117-120) runs the cleanup.
Fail(p) == proc' = [proc EXCEPT ![p].pc = "cleanup", ![p].cause = proc[p].pc]

Init ==
  /\ yaml \in BOOLEAN
  /\ faults = TRUE
  /\ clock = 0
  /\ head = <<"c0">>
  /\ branches = [b \in {<<"main">>} |-> [fork |-> <<"c0">>, meta |-> NoFile]]
  /\ worktrees = [w \in {} |-> NoFile]
  /\ proc = [p \in Procs |-> Idle]
  /\ calls = 0

\* Time passes.
Tick ==
  /\ clock < MaxClock
  /\ clock' = clock + 1
  /\ UNCHANGED <<faults, calls, yaml, head, branches, worktrees, proc>>

\* ----------------------------------------------------------------- create

\* create without the existence check of lines 77-78.
create_check_unguarded(p, task_id, title, agent) ==
  /\ proc[p].pc = "idle"
  /\ calls < MaxCalls
  /\ calls' = calls + 1
  /\ proc' = [proc EXCEPT ![p] =
       [Idle EXCEPT !.op = "create", !.task_id = task_id, !.title = title,
                    !.agent = agent, !.pc = "get_main_branch"]]
  /\ UNCHANGED <<faults, yaml, clock, head, branches, worktrees>>

\* create, lines 74-78: the existence check.
create_check(p, task_id, title, agent) ==
  /\ proc[p].pc = "idle"
  /\ calls < MaxCalls
  /\ calls' = calls + 1
  /\ LET call == [Idle EXCEPT !.op = "create", !.task_id = task_id,
                              !.title = title, !.agent = agent] IN
     proc' = [proc EXCEPT ![p] =
       IF DirExists(WorktreeOf(task_id))
       THEN Return(call, "WorkspaceExistsError")
       ELSE [call EXCEPT !.pc = "get_main_branch"]]
  /\ UNCHANGED <<faults, yaml, clock, head, branches, worktrees>>

\* A create that takes the base branch to be main without probing.
_get_main_branch_fixed(p) ==
  /\ proc[p].pc = "get_main_branch"
  /\ proc' = [proc EXCEPT ![p].pc = "git_branch", ![p].main_branch = <<"main">>]
  /\ UNCHANGED <<faults, calls, yaml, clock, head, branches, worktrees>>

\* _get_main_branch: `git rev-parse --verify main`; any failure answers "master".
_get_main_branch(p) ==
  /\ proc[p].pc = "get_main_branch"
  /\ \/ /\ BranchExists(<<"main">>)
        /\ proc' = [proc EXCEPT ![p].pc = "git_branch", ![p].main_branch = <<"main">>]
     \/ /\ faults \/ ~BranchExists(<<"main">>)
        /\ proc' = [proc EXCEPT ![p].pc = "git_branch", ![p].main_branch = <<"master">>]
  /\ UNCHANGED <<faults, calls, yaml, clock, head, branches, worktrees>>

\* A create that does not run `git branch` and leaves the branch to be made
\* later.
create_git_branch_skipped(p) ==
  /\ proc[p].pc = "git_branch"
  /\ Goto(p, "worktree_add")
  /\ UNCHANGED <<faults, calls, yaml, clock, head, branches, worktrees>>

\* `git branch <branch> <main_branch>`
create_git_branch(p) ==
  LET b == BranchOf(proc[p].task_id) IN
  /\ proc[p].pc = "git_branch"
  /\ \/ /\ BranchExists(proc[p].main_branch)
        /\ ~BranchExists(b)
        /\ branches' = With(branches, b, branches[proc[p].main_branch])
        /\ Goto(p, "worktree_add")
     \/ /\ faults \/ ~BranchExists(proc[p].main_branch) \/ BranchExists(b)
        /\ Fail(p)
        /\ UNCHANGED branches
  /\ UNCHANGED <<faults, calls, yaml, clock, head, worktrees>>

\* `git worktree add <worktree> <branch>`
create_worktree_add(p) ==
  LET b == BranchOf(proc[p].task_id)
      w == WorktreeOf(proc[p].task_id) IN
  /\ proc[p].pc = "worktree_add"
  /\ \/ /\ BranchExists(b)
        /\ ~DirExists(w)
        /\ ~CheckedOut(b)
        /\ worktrees' = With(worktrees, w,
             [branch |-> b, file |-> branches[b].meta, index |-> branches[b].meta])
        /\ Goto(p, "copy_env")
     \/ /\ faults \/ ~BranchExists(b) \/ DirExists(w) \/ CheckedOut(b)
        /\ Fail(p)
        /\ UNCHANGED worktrees
  /\ UNCHANGED <<faults, calls, yaml, clock, head, branches>>

\* Lines 91-93: shutil.copy of the .env template when there is one.  The copy
\* is an ignored file of the working tree; a failing copy raises OSError,
\* which the except clause of create does not catch.
create_copy_env(p) ==
  /\ proc[p].pc = "copy_env"
  /\ \/ Goto(p, "parent_commit")
     \/ /\ faults \/ ~DirExists(WorktreeOf(proc[p].task_id))
        /\ proc' = [proc EXCEPT ![p] = Return(@, "OSError")]
  /\ UNCHANGED <<faults, calls, yaml, clock, head, branches, worktrees>>

\* Lines 96-103: the record up to parent_commit; _get_current_commit is
\* `git rev-parse HEAD` in the main checkout.
create_parent_commit(p) ==
  /\ proc[p].pc = "parent_commit"
  /\ \/ proc' = [proc EXCEPT ![p].pc = "created_at", ![p].meta =
           <<Item("task_id", PyStr(proc[p].task_id)),
             Item("title", PyStr(proc[p].title)),
             Item("agent", PyStr(proc[p].agent)),
             Item("status", PyStr(<<"backlog">>)),
             Item("skill", PyNone),
             Item("xp_reward", PyInt(0)),
             Item("parent_commit", PyStr(head))>>]
     \/ faults /\ Fail(p)
  /\ UNCHANGED <<faults, calls, yaml, clock, head, branches, worktrees>>

\* Line 104: "created_at": self._now_iso()
create_created_at(p) ==
  /\ proc[p].pc = "created_at"
  /\ proc' = [proc EXCEPT ![p].pc = "updated_at", ![p].meta =
       Append(@, Item("created_at", PyStr(_now_iso(clock))))]
  /\ UNCHANGED <<faults, calls, yaml, clock, head, branches, worktrees>>

\* Line 105: "updated_at": self._now_iso(), a second reading of the clock.
create_updated_at(p) ==
  /\ proc[p].pc = "updated_at"
  /\ proc' = [proc EXCEPT ![p].pc = "write_meta", ![p].meta =
       Append(@, Item("updated_at", PyStr(_now_iso(clock))))]
  /\ UNCHANGED <<faults, calls, yaml, clock, head, branches, worktrees>>

\* Line 107: _write_yaml(worktree / "META.yml", meta); a failing write raises
\* OSError, which the except clause of create does not catch.
create_write_meta(p) ==
  LET w == WorktreeOf(proc[p].task_id) IN
  /\ proc[p].pc = "write_meta"
  /\ \/ /\ DirExists(w)
        /\ worktrees' = [worktrees EXCEPT ![w].file = _write_yaml(yaml, proc[p].meta)]
        /\ Goto(p, "git_add")
     \/ /\ faults \/ ~DirExists(w)
        /\ proc' = [proc EXCEPT ![p] = Return(@, "OSError")]
        /\ UNCHANGED worktrees
  /\ UNCHANGED <<faults, calls, yaml, clock, head, branches>>

\* `git -C <worktree> add META.yml`
create_git_add(p) ==
  LET w == WorktreeOf(proc[p].task_id) IN
  /\ proc[p].pc = "git_add"
  /\ \/ /\ MetaFile(w) # NoFile
        /\ worktrees' = [worktrees EXCEPT ![w].index = worktrees[w].file]
        /\ Goto(p, "git_commit")
     \/ /\ faults \/ MetaFile(w) = NoFile
        /\ Fail(p)
        /\ UNCHANGED worktrees
  /\ UNCHANGED <<faults, calls, yaml, clock, head, branches>>

\* `git -C <worktree> commit` succeeds: the directory is a working tree and
\* its index differs from the tip of the branch checked out there.
CanCommit(w) ==
  /\ DirExists(w)
  /\ BranchExists(worktrees[w].branch)
  /\ worktrees[w].index # branches[worktrees[w].branch].meta

\* `git -C <worktree> commit`: moves the tip of the branch checked out there;
\* fails when nothing is staged.
create_git_commit(p) ==
  LET w == WorktreeOf(proc[p].task_id) IN
  /\ proc[p].pc = "git_commit"
  /\ \/ /\ CanCommit(w)
        /\ branches' = [branches EXCEPT ![worktrees[w].branch].meta = worktrees[w].index]
        /\ proc' = [proc EXCEPT ![p] = Return(@, "ok")]
     \/ /\ faults \/ ~CanCommit(w)
        /\ Fail(p)
        /\ UNCHANGED branches
  /\ UNCHANGED <<faults, calls, yaml, clock, head, worktrees>>

\* _cleanup_failed_workspace, lines 320-322: `git worktree remove --force` when
\* the directory exists; its exit status is ignored.
cleanup_worktree(p) ==
  LET w == WorktreeOf(proc[p].task_id) IN
  /\ proc[p].pc = "cleanup"
  /\ \/ /\ DirExists(w)
        /\ worktrees' = Without(worktrees, w)
        /\ Goto(p, "cleanup_branch")
     \/ /\ DirExists(w)
        /\ faults
        /\ proc' = [proc EXCEPT ![p].pc = "cleanup_branch", ![p].cleanup_failed = TRUE]
        /\ UNCHANGED worktrees
     \/ /\ ~DirExists(w)
        /\ Goto(p, "cleanup_branch")
        /\ UNCHANGED worktrees
     \* exists() or subprocess.run itself raises: the bare except (lines
     \* 324-325) swallows it and line 323 is not reached.
     \/ /\ faults
        /\ proc' = [proc EXCEPT ![p] =
             Return([@ EXCEPT !.cleanup_failed = TRUE], "WorkspaceCreationError")]
        /\ UNCHANGED worktrees
  /\ UNCHANGED <<faults, calls, yaml, clock, head, branches>>

\* A cleanup that leaves the branch behind: line 323 missing.
cleanup_keeps_branch(p) ==
  /\ proc[p].pc = "cleanup_branch"
  /\ proc' = [proc EXCEPT ![p] = Return(@, "WorkspaceCreationError")]
  /\ UNCHANGED <<faults, calls, yaml, clock, head, branches, worktrees>>

\* A cleanup whose `git branch -D` is run with check=True outside the try: its
\* failure reaches the caller.
cleanup_branch_checked(p) ==
  LET b == BranchOf(proc[p].task_id) IN
  /\ proc[p].pc = "cleanup_branch"
  /\ \/ /\ BranchExists(b)
        /\ ~CheckedOut(b)
        /\ branches' = Without(branches, b)
        /\ proc' = [proc EXCEPT ![p] = Return(@, "WorkspaceCreationError")]
     \/ /\ faults \/ ~BranchExists(b) \/ CheckedOut(b)
        /\ proc' = [proc EXCEPT ![p] =
             Return([@ EXCEPT !.cleanup_failed = TRUE], "CalledProcessError")]
        /\ UNCHANGED branches
  /\ UNCHANGED <<faults, calls, yaml, clock, head, worktrees>>

\* _cleanup_failed_workspace, line 323: `git branch -D`, exit status ignored;
\* then create raises WorkspaceCreationError (line 120).
cleanup_branch(p) ==
  LET b == BranchOf(proc[p].task_id) IN
  /\ proc[p].pc = "cleanup_branch"
  /\ \/ /\ BranchExists(b)
        /\ ~CheckedOut(b)
        /\ branches' = Without(branches, b)
        /\ proc' = [proc EXCEPT ![p] = Return(@, "WorkspaceCreationError")]
     \/ /\ faults \/ ~BranchExists(b) \/ CheckedOut(b)
        /\ proc' = [proc EXCEPT ![p] =
             Return([@ EXCEPT !.cleanup_failed = TRUE], "WorkspaceCreationError")]
        /\ UNCHANGED branches
  /\ UNCHANGED <<faults, calls, yaml, clock, head, worktrees>>

create(p) ==
  \/ \E task_id \in TaskIds, title \in Titles, agent \in Agents :
       create_check(p, task_id, title, agent)
  \/ _get_main_branch(p)
  \/ create_git_branch(p)
  \/ create_worktree_add(p)
  \/ create_copy_env(p)
  \/ create_parent_commit(p)
  \/ create_created_at(p)
  \/ create_updated_at(p)
  \/ create_write_meta(p)
  \/ create_git_add(p)
  \/ create_git_commit(p)
  \/ cleanup_worktree(p)
  \/ cleanup_branch(p)

\* ----------------------------------------------------------------- remove

\* The working tree has no modified or staged tracked file.
Clean(w) ==
  /\ DirExists(w)
  /\ worktrees[w].file = worktrees[w].index
  /\ worktrees[w].index = MetaAtTip(worktrees[w].branch)

\* A remove whose first command unregisters the working tree (its branch is
\* no longer checked out) and leaves the directory and its files on disk.
remove_worktree_keeps_dir(p, task_id, force) ==
  LET w == WorktreeOf(task_id)
      call == [Idle EXCEPT !.op = "remove", !.task_id = task_id, !.force = force] IN
  /\ proc[p].pc = "idle"
  /\ calls < MaxCalls
  /\ calls' = calls + 1
  /\ \/ /\ DirExists(w)
        /\ force \/ Clean(w)
        /\ worktrees' = [worktrees EXCEPT ![w].branch = <<>>]
        /\ proc' = [proc EXCEPT ![p] = [call EXCEPT !.pc = "branch_delete"]]
     \/ /\ faults \/ ~DirExists(w) \/ ~(force \/ Clean(w))
        /\ proc' = [proc EXCEPT ![p] = Return(call, "WorkspaceRemovalError")]
        /\ UNCHANGED worktrees
  /\ UNCHANGED <<faults, yaml, clock, head, branches>>

\* A remove that returns normally when the directory is already gone.
remove_worktree_idempotent(p, task_id, force) ==
  LET w == WorktreeOf(task_id)
      call == [Idle EXCEPT !.op = "remove", !.task_id = task_id, !.force = force] IN
  /\ proc[p].pc = "idle"
  /\ calls < MaxCalls
  /\ calls' = calls + 1
  /\ \/ /\ DirExists(w)
        /\ force \/ Clean(w)
        /\ worktrees' = Without(worktrees, w)
        /\ proc' = [proc EXCEPT ![p] = [call EXCEPT !.pc = "branch_delete"]]
     \/ /\ ~DirExists(w)
        /\ proc' = [proc EXCEPT ![p] = Return(call, "ok")]
        /\ UNCHANGED worktrees
     \/ /\ faults \/ (DirExists(w) /\ ~(force \/ Clean(w)))
        /\ proc' = [proc EXCEPT ![p] = Return(call, "WorkspaceRemovalError")]
        /\ UNCHANGED worktrees
  /\ UNCHANGED <<faults, yaml, clock, head, branches>>

\* A remove that goes on to delete the branch when the working tree could not
\* be removed.
remove_worktree_continues(p, task_id, force) ==
  LET w == WorktreeOf(task_id)
      call == [Idle EXCEPT !.op = "remove", !.task_id = task_id, !.force = force] IN
  /\ proc[p].pc = "idle"
  /\ calls < MaxCalls
  /\ calls' = calls + 1
  /\ \/ /\ DirExists(w)
        /\ force \/ Clean(w)
        /\ worktrees' = Without(worktrees, w)
     \/ /\ faults \/ ~DirExists(w) \/ ~(force \/ Clean(w))
        /\ UNCHANGED worktrees
  /\ proc' = [proc EXCEPT ![p] = [call EXCEPT !.pc = "branch_delete"]]
  /\ UNCHANGED <<faults, yaml, clock, head, branches>>

\* A remove that always passes --force to `git worktree remove`.
remove_worktree_forced(p, task_id, force) ==
  LET w == WorktreeOf(task_id)
      call == [Idle EXCEPT !.op = "remove", !.task_id = task_id, !.force = force] IN
  /\ proc[p].pc = "idle"
  /\ calls < MaxCalls
  /\ calls' = calls + 1
  /\ \/ /\ DirExists(w)
        /\ worktrees' = Without(worktrees, w)
        /\ proc' = [proc EXCEPT ![p] = [call EXCEPT !.pc = "branch_delete"]]
     \/ /\ faults \/ ~DirExists(w)
        /\ proc' = [proc EXCEPT ![p] = Return(call, "WorkspaceRemovalError")]
        /\ UNCHANGED worktrees
  /\ UNCHANGED <<faults, yaml, clock, head, branches>>

\* remove, lines 130-139: `git worktree remove [--force] <worktree>`
remove_worktree(p, task_id, force) ==
  LET w == WorktreeOf(task_id)
      call == [Idle EXCEPT !.op = "remove", !.task_id = task_id, !.force = force] IN
  /\ proc[p].pc = "idle"
  /\ calls < MaxCalls
  /\ calls' = calls + 1
  /\ \/ /\ DirExists(w)
        /\ force \/ Clean(w)
        /\ worktrees' = Without(worktrees, w)
        /\ proc' = [proc EXCEPT ![p] = [call EXCEPT !.pc = "branch_delete"]]
     \/ /\ faults \/ ~DirExists(w) \/ ~(force \/ Clean(w))
        /\ proc' = [proc EXCEPT ![p] = Return(call, "WorkspaceRemovalError")]
        /\ UNCHANGED worktrees
  /\ UNCHANGED <<faults, yaml, clock, head, branches>>

\* remove, lines 141-146: `git branch -D <branch>`
remove_branch(p) ==
  LET b == BranchOf(proc[p].task_id) IN
  /\ proc[p].pc = "branch_delete"
  /\ \/ /\ BranchExists(b)
        /\ ~CheckedOut(b)
        /\ branches' = Without(branches, b)
        /\ proc' = [proc EXCEPT ![p] = Return(@, "ok")]
     \/ /\ faults \/ ~BranchExists(b) \/ CheckedOut(b)
        /\ proc' = [proc EXCEPT ![p] = Return(@, "WorkspaceRemovalError")]
        /\ UNCHANGED branches
  /\ UNCHANGED <<faults, calls, yaml, clock, head, worktrees>>

remove(p) ==
  \/ \E task_id \in TaskIds, force \in BOOLEAN : remove_worktree(p, task_id, force)
  \/ remove_branch(p)

\* --------------------------------------------------------------- get_meta

\* What get_meta(task_id) does when the directories are `dirs`: the exception
\* it raises, or "ok" and the record it returns.
GetMetaRetIn(dirs, task_id) ==
  IF MetaFileIn(dirs, WorktreeOf(task_id)) = NoFile
  THEN "WorkspaceNotFoundError" ELSE "ok"
GetMetaOutIn(dirs, task_id) ==
  IF MetaFileIn(dirs, WorktreeOf(task_id)) = NoFile THEN <<>>
  ELSE _parse_yaml(yaml, MetaFileIn(dirs, WorktreeOf(task_id)))
\* get_meta in the current state.
GetMetaRet(task_id) == GetMetaRetIn(worktrees, task_id)
GetMetaOut(task_id) == GetMetaOutIn(worktrees, task_id)

get_meta(p) ==
  /\ proc[p].pc = "idle"
  /\ calls < MaxCalls
  /\ calls' = calls + 1
  /\ \E task_id \in TaskIds :
       proc' = [proc EXCEPT ![p] =
         Return([Idle EXCEPT !.op = "get_meta", !.task_id = task_id,
                             !.out = GetMetaOut(task_id)],
                GetMetaRet(task_id))]
  /\ UNCHANGED <<faults, yaml, clock, head, branches, worktrees>>

\* ------------------------------------------------------------ update_meta

\* update_meta, lines 176-185: read the record, merge, stamp updated_at.
\* _read_yaml of an absent file raises FileNotFoundError.
update_read(p, task_id, updates, commit) ==
  LET w == WorktreeOf(task_id)
      call == [Idle EXCEPT !.op = "update_meta", !.task_id = task_id,
                           !.updates = updates, !.commit = commit] IN
  /\ proc[p].pc = "idle"
  /\ calls < MaxCalls
  /\ calls' = calls + 1
  /\ proc' = [proc EXCEPT ![p] =
       IF MetaFile(w) = NoFile
       THEN Return(call, "FileNotFoundError")
       ELSE [call EXCEPT
               !.pc = "update_write",
               !.pre = _parse_yaml(yaml, MetaFile(w)),
               !.meta = DictSet(DictUpdate(_parse_yaml(yaml, MetaFile(w)), updates),
                                K("updated_at"), PyStr(_now_iso(clock)))]]
  /\ UNCHANGED <<faults, yaml, clock, head, branches, worktrees>>

\* update_meta, line 188: _write_yaml(meta_path, meta)
update_write(p) ==
  LET w == WorktreeOf(proc[p].task_id) IN
  /\ proc[p].pc = "update_write"
  /\ \/ /\ DirExists(w)
        /\ worktrees' = [worktrees EXCEPT ![w].file = _write_yaml(yaml, proc[p].meta)]
        /\ proc' = [proc EXCEPT ![p] =
             IF proc[p].commit THEN [@ EXCEPT !.pc = "update_add"] ELSE Return(@, "ok")]
     \/ /\ faults \/ ~DirExists(w)
        /\ proc' = [proc EXCEPT ![p] = Return(@, "OSError")]
        /\ UNCHANGED worktrees
  /\ UNCHANGED <<faults, calls, yaml, clock, head, branches>>

\* update_meta, line 192: `git -C <worktree> add META.yml`
update_git_add(p) ==
  LET w == WorktreeOf(proc[p].task_id) IN
  /\ proc[p].pc = "update_add"
  /\ \/ /\ MetaFile(w) # NoFile
        /\ worktrees' = [worktrees EXCEPT ![w].index = worktrees[w].file]
        /\ Goto(p, "update_commit")
     \/ /\ faults \/ MetaFile(w) = NoFile
        /\ proc' = [proc EXCEPT ![p] = Return(@, "CalledProcessError")]
        /\ UNCHANGED worktrees
  /\ UNCHANGED <<faults, calls, yaml, clock, head, branches>>

\* update_meta, lines 193-194: `git -C <worktree> commit`
update_git_commit(p) ==
  LET w == WorktreeOf(proc[p].task_id) IN
  /\ proc[p].pc = "update_commit"
  /\ \/ /\ CanCommit(w)
        /\ branches' = [branches EXCEPT ![worktrees[w].branch].meta = worktrees[w].index]
        /\ proc' = [proc EXCEPT ![p] = Return(@, "ok")]
     \/ /\ faults \/ ~CanCommit(w)
        /\ proc' = [proc EXCEPT ![p] = Return(@, "CalledProcessError")]
        /\ UNCHANGED branches
  /\ UNCHANGED <<faults, calls, yaml, clock, head, worktrees>>

update_meta(p) ==
  \/ \E task_id \in TaskIds, updates \in Updates, commit \in BOOLEAN :
       update_read(p, task_id, updates, commit)
  \/ update_write(p)
  \/ update_git_add(p)
  \/ update_git_commit(p)

\* -------------------------------------------------------- list_workspaces

\* The branches `git for-each-ref refs/heads/feat/*` names.
\* The pattern's `*` does not match a "/" (for-each-ref matches names as paths).
FeatBranches ==
  {b \in DOMAIN branches :
     /\ Len(b) > 2
     /\ SubSeq(b, 1, 2) = <<"feat", "/">>
     /\ \A i \in 3..Len(b) : b[i] # "/"}

RECURSIVE SetToSeq(_)
SetToSeq(S) ==
  IF S = {} THEN <<>>
  ELSE LET x == CHOOSE y \in S : TRUE IN <<x>> \o SetToSeq(S \ {x})

\* list_workspaces, lines 206-215: enumerate the branches; a failing
\* for-each-ref is swallowed (lines 234-237) and the result is empty.
list_refs(p) ==
  LET call == [Idle EXCEPT !.op = "list_workspaces"] IN
  /\ proc[p].pc = "idle"
  /\ calls < MaxCalls
  /\ calls' = calls + 1
  /\ \/ proc' = [proc EXCEPT ![p] =
          IF FeatBranches = {} THEN Return(call, "ok")
          ELSE [call EXCEPT !.pc = "list_show", !.todo = SetToSeq(FeatBranches)]]
     \/ /\ faults
        /\ proc' = [proc EXCEPT ![p] = Return([call EXCEPT !.cause = "for_each_ref"], "ok")]
  /\ UNCHANGED <<faults, yaml, clock, head, branches, worktrees>>

\* A list_workspaces that deletes the branches in which it finds no META.yml.
list_show_prunes(p) ==
  LET b == Head(proc[p].todo)
      rest == Tail(proc[p].todo)
      after(r) == IF rest = <<>> THEN Return(r, "ok") ELSE [r EXCEPT !.todo = rest] IN
  /\ proc[p].pc = "list_show"
  /\ \/ /\ MetaAtTip(b) # NoFile
        /\ proc' = [proc EXCEPT ![p] =
             after([@ EXCEPT !.result = Append(@,
               DictSet(_parse_yaml(yaml, MetaAtTip(b)), K("branch"), PyStr(b)))])]
        /\ UNCHANGED branches
     \/ /\ MetaAtTip(b) = NoFile
        /\ proc' = [proc EXCEPT ![p] = after(@)]
        /\ branches' = Without(branches, b)
  /\ UNCHANGED <<faults, calls, yaml, clock, head, worktrees>>

\* A list_workspaces that reads META.yml from the branch's directory.
list_show_reads_worktree(p) ==
  LET b == Head(proc[p].todo)
      w == Replace(b, "/", "-")
      rest == Tail(proc[p].todo)
      after(r) == IF rest = <<>> THEN Return(r, "ok") ELSE [r EXCEPT !.todo = rest] IN
  /\ proc[p].pc = "list_show"
  /\ \/ /\ MetaFile(w) # NoFile
        /\ proc' = [proc EXCEPT ![p] =
             after([@ EXCEPT !.result = Append(@,
               DictSet(_parse_yaml(yaml, MetaFile(w)), K("branch"), PyStr(b)))])]
     \/ /\ MetaFile(w) = NoFile
        /\ proc' = [proc EXCEPT ![p] = after(@)]
     \/ /\ faults /\ MetaFile(w) # NoFile
        /\ proc' = [proc EXCEPT ![p] = after([@ EXCEPT !.cause = "git_show"])]
  /\ UNCHANGED <<faults, calls, yaml, clock, head, branches, worktrees>>

\* list_workspaces, lines 217-232: `git show <branch>:META.yml` for the next
\* branch; a failing show skips the branch.
list_show(p) ==
  LET b == Head(proc[p].todo)
      rest == Tail(proc[p].todo)
      after(r) == IF rest = <<>> THEN Return(r, "ok") ELSE [r EXCEPT !.todo = rest] IN
  /\ proc[p].pc = "list_show"
  /\ \/ /\ MetaAtTip(b) # NoFile
        /\ proc' = [proc EXCEPT ![p] =
             after([@ EXCEPT !.result = Append(@,
               DictSet(_parse_yaml(yaml, MetaAtTip(b)), K("branch"), PyStr(b)))])]
     \/ /\ MetaAtTip(b) = NoFile
        /\ proc' = [proc EXCEPT ![p] = after(@)]
     \/ /\ faults /\ MetaAtTip(b) # NoFile
        /\ proc' = [proc EXCEPT ![p] = after([@ EXCEPT !.cause = "git_show"])]
  /\ UNCHANGED <<faults, calls, yaml, clock, head, branches, worktrees>>

list_workspaces(p) == list_refs(p) \/ list_show(p)

\* -------------------------------------------------------------- board API

\* update_task_status, line 149: the statuses the endpoint accepts.
valid_statuses ==
  {<<"backlog">>, <<"in_progress">>, <<"review">>, <<"done">>, <<"blocked">>}

\* The HTTP status of an endpoint of api/board.py, from the manager call it
\* made (r: the call as it returned) and, where the endpoint goes on to read
\* the record with get_meta, the directories at that time.

\* create_task: wm.create then wm.get_meta inside one try.
create_task(r, dirs) ==
  IF r.ret = "WorkspaceExistsError" THEN 409
  ELSE IF r.ret # "ok" THEN 500
  ELSE IF GetMetaRetIn(dirs, r.task_id) # "ok" THEN 500
  ELSE 200

\* get_task: wm.get_meta.
get_task(r) ==
  IF r.ret = "WorkspaceNotFoundError" THEN 404
  ELSE IF r.ret # "ok" THEN 500
  ELSE 200

\* update_task_status (after the status was found valid): wm.update_meta then
\* wm.get_meta inside one try.
update_task_status(r, dirs) ==
  IF r.ret = "WorkspaceNotFoundError" THEN 404
  ELSE IF r.ret # "ok" THEN 500
  ELSE IF GetMetaRetIn(dirs, r.task_id) = "WorkspaceNotFoundError" THEN 404
  ELSE 200

\* delete_task: wm.remove.
delete_task(r) == IF r.ret # "ok" THEN 500 ELSE 200

\* ------------------------------------------------------------------ specs

Step(p) == create(p) \/ remove(p) \/ get_meta(p) \/ update_meta(p) \/ list_workspaces(p)

\* One caller at a time: every operation runs to its end before the next starts.
Next == Tick \/ Step(1)

Spec == Init /\ [][Next]_vars


\* Two processes each call create once, for the same task_id, and their
\* steps interleave.
create_once(p) ==
  \/ /\ proc[p].op = "none"
     /\ \E title \in Titles, agent \in Agents : create_check(p, T1, title, agent)
  \/ _get_main_branch(p)
  \/ create_git_branch(p)
  \/ create_worktree_add(p)
  \/ create_copy_env(p)
  \/ create_parent_commit(p)
  \/ create_created_at(p)
  \/ create_updated_at(p)
  \/ create_write_meta(p)
  \/ create_git_add(p)
  \/ create_git_commit(p)
  \/ cleanup_worktree(p)
  \/ cleanup_branch(p)

NextRace == \E p \in Procs : create_once(p)

\* The race is between the two calls alone: no command fails for a reason
\* outside the repository.
InitRace ==
  /\ yaml \in BOOLEAN
  /\ faults = FALSE
  /\ clock = 0
  /\ head = <<"c0">>
  /\ branches = [b \in {<<"main">>} |-> [fork |-> <<"c0">>, meta |-> NoFile]]
  /\ worktrees = [w \in {} |-> NoFile]
  /\ proc = [p \in Procs |-> Idle]
  /\ calls = 0

SpecRace == InitRace /\ [][NextRace]_vars

\* The steps of create after the existence check.
create_body(p) ==
  \/ _get_main_branch(p)
  \/ create_git_branch(p)
  \/ create_worktree_add(p)
  \/ create_copy_env(p)
  \/ create_parent_commit(p)
  \/ create_created_at(p)
  \/ create_updated_at(p)
  \/ create_write_meta(p)
  \/ create_git_add(p)
  \/ create_git_commit(p)

\* One caller creates, updates, removes and lists workspaces, one call after
\* the other, in a repository where no command fails for an outside reason; no
\* create then reaches its except clause.
ListIds == {T1, TSlash}

NextList ==
  \/ \E task_id \in ListIds, title \in Titles, agent \in Agents :
       create_check(1, task_id, title, agent)
  \/ create_body(1)
  \/ \E task_id \in ListIds, updates \in Updates, commit \in BOOLEAN :
       update_read(1, task_id, updates, commit)
  \/ update_write(1)
  \/ update_git_add(1)
  \/ update_git_commit(1)
  \/ \E task_id \in ListIds, force \in BOOLEAN : remove_worktree(1, task_id, force)
  \/ remove_branch(1)
  \/ list_workspaces(1)

SpecList == InitRace /\ [][NextList]_vars

\* Two processes work at the same time, each on its own task_ids, different
\* from the other's; no command fails for an outside reason.
ParIds(p) == IF p = 1 THEN {TSlash} ELSE {TDash, T1}
AllParIds == ParIds(1) \cup ParIds(2)

\* The titles do not matter to what the two processes do to each other.
ParTitles == {<<"MVP">>}

StepPar(p) ==
  \/ \E task_id \in ParIds(p), title \in ParTitles, agent \in Agents :
       create_check(p, task_id, title, agent)
  \/ create_body(p)
  \/ cleanup_worktree(p)
  \/ cleanup_branch(p)
  \/ \E task_id \in ParIds(p), updates \in Updates, commit \in BOOLEAN :
       update_read(p, task_id, updates, commit)
  \/ update_write(p)
  \/ update_git_add(p)
  \/ update_git_commit(p)
  \/ \E task_id \in ParIds(p), force \in BOOLEAN : remove_worktree(p, task_id, force)
  \/ remove_branch(p)
  \/ list_workspaces(p)

NextPar == \E p \in Procs : StepPar(p)

SpecPar == InitRace /\ [][NextPar]_vars

\* The repository changes between and during the calls of one caller: the
\* base branch is renamed (main to master or back) and commits land on it.
\* The main checkout stays on the base branch, so HEAD is its tip.
BaseBranch == IF BranchExists(<<"main">>) THEN <<"main">> ELSE <<"master">>
CommitName(n) == IF n = 0 THEN <<"c0">> ELSE <<"c">> \o NatToStr(n)

\* `git branch -m`: main becomes master, or master main.
BaseRenamed ==
  LET other == IF BaseBranch = <<"main">> THEN <<"master">> ELSE <<"main">> IN
  /\ branches' = With(Without(branches, BaseBranch), other, branches[BaseBranch])
  /\ UNCHANGED <<faults, calls, yaml, clock, head, worktrees, proc>>

\* A commit lands on the base branch: its tip and HEAD move.
CommitLands ==
  /\ \E n \in 0..(MaxCommits - 1) :
       /\ head = CommitName(n)
       /\ head' = CommitName(n + 1)
  /\ branches' = [branches EXCEPT ![BaseBranch].fork = head']
  /\ UNCHANGED <<faults, calls, yaml, clock, worktrees, proc>>

EnvIds == {T1, TDash}

NextEnv ==
  \/ BaseRenamed
  \/ CommitLands
  \/ \E task_id \in EnvIds, title \in Titles, agent \in Agents :
       create_check(1, task_id, title, agent)
  \/ create_body(1)
  \/ cleanup_worktree(1)
  \/ cleanup_branch(1)

SpecEnv == InitRace /\ [][NextEnv]_vars

\* ----------------------------------------------------------------- claims

Quiescent == \A p \in Procs : proc[p].pc = "idle"

\* The three resources of a workspace.
HasBranch(task_id) == BranchExists(BranchOf(task_id))
HasDir(task_id) == DirExists(WorktreeOf(task_id))
HasMeta(task_id) == MetaFile(WorktreeOf(task_id)) # NoFile
\* Branch, directory and committed metadata are all present.
Complete(task_id) ==
  /\ HasBranch(task_id) /\ HasDir(task_id) /\ HasMeta(task_id)
  /\ MetaAtTip(BranchOf(task_id)) = MetaFile(WorktreeOf(task_id))
Absent(task_id) == ~HasBranch(task_id) /\ ~HasDir(task_id) /\ ~HasMeta(task_id)

\* C1: when create's branch creation succeeded, its `git worktree add` failed
\* and no cleanup command failed, create has raised WorkspaceCreationError and
\* neither the branch nor the directory of the task exists.
C1_RollbackAfterWorktreeFailure ==
  \A p \in Procs :
    (/\ proc[p].pc = "idle" /\ proc[p].op = "create"
     /\ proc[p].cause = "worktree_add" /\ ~proc[p].cleanup_failed)
    => /\ proc[p].ret = "WorkspaceCreationError"
       /\ ~HasBranch(proc[p].task_id)
       /\ ~HasDir(proc[p].task_id)

\* A create whose worktree add failed has returned after a clean rollback.
C1_Witness ==
  /\ proc[1].pc = "idle" /\ proc[1].op = "create"
  /\ proc[1].cause = "worktree_add" /\ ~proc[1].cleanup_failed
  /\ proc[1].ret = "WorkspaceCreationError"

\* C2: every create that failed after the existence check, whatever failed,
\* went through the cleanup and raised WorkspaceCreationError.
C2_EveryFailureIsWrapped ==
  \A p \in Procs :
    (/\ proc[p].pc = "idle" /\ proc[p].op = "create"
     /\ proc[p].ret \notin {"ok", "WorkspaceExistsError"})
    => proc[p].ret = "WorkspaceCreationError"

\* C3: once two concurrent create calls for the same task_id have returned,
\* at most one has succeeded, the other has raised a WorkspaceError, and the
\* workspace is complete (as it must be when one succeeded) or absent.
C3_RaceLeavesNoHalfState ==
  (\A p \in Procs : proc[p].pc = "idle" /\ proc[p].op = "create")
  => /\ Cardinality({p \in Procs : proc[p].ret = "ok"}) <= 1
     /\ \A p \in Procs :
          proc[p].ret \in {"ok", "WorkspaceExistsError", "WorkspaceCreationError"}
     /\ (\E p \in Procs : proc[p].ret = "ok") => Complete(T1)
     /\ Complete(T1) \/ Absent(T1)

\* C4: whenever no operation is in progress, every task_id has all three of
\* branch, directory and metadata file, or none of them.
C4_AllOrNothing ==
  Quiescent =>
    \A t \in TaskIds :
      \/ HasBranch(t) /\ HasDir(t) /\ HasMeta(t)
      \/ Absent(t)

\* C5: a create call for a task_id whose directory exists raises
\* WorkspaceExistsError in that very step and changes no branch, no
\* directory and no metadata record.
C5_SecondCreateRefused ==
  [][\A p \in Procs : \A t \in TaskIds :
       (/\ proc[p].pc = "idle" /\ proc'[p] # proc[p]
        /\ proc'[p].op = "create" /\ proc'[p].task_id = t /\ HasDir(t))
       => /\ proc'[p].pc = "idle"
          /\ proc'[p].ret = "WorkspaceExistsError"
          /\ UNCHANGED <<branches, worktrees>>]_vars

\* A create call has been refused while the workspace is there, complete.
C5_Witness ==
  /\ proc[1].pc = "idle" /\ proc[1].op = "create"
  /\ proc[1].ret = "WorkspaceExistsError"
  /\ Complete(proc[1].task_id)


\* Process p's create returns successfully in this step.
CreateSucceeds(p) ==
  proc[p].op = "create" /\ proc[p].pc # "idle" /\ proc'[p].pc = "idle" /\ proc'[p].ret = "ok"

\* Process p's update_meta returns successfully in this step.
UpdateSucceeds(p) ==
  proc[p].op = "update_meta" /\ proc[p].pc # "idle" /\ proc'[p].pc = "idle" /\ proc'[p].ret = "ok"

\* C6: right after a successful create(task_id, title, agent), get_meta
\* returns a record with that task_id, title and agent, status "backlog" and
\* xp_reward 0.
C6_CreateThenGetMeta ==
  [][\A p \in Procs : \A t \in TaskIds :
       (CreateSucceeds(p) /\ proc[p].task_id = t)
       => /\ GetMetaRetIn(worktrees', t) = "ok"
          /\ DictGet(GetMetaOutIn(worktrees', t), K("task_id")) = PyStr(t)
          /\ DictGet(GetMetaOutIn(worktrees', t), K("title")) = PyStr(proc[p].title)
          /\ DictGet(GetMetaOutIn(worktrees', t), K("agent")) = PyStr(proc[p].agent)
          /\ DictGet(GetMetaOutIn(worktrees', t), K("status")) = PyStr(<<"backlog">>)
          /\ DictGet(GetMetaOutIn(worktrees', t), K("xp_reward")) = PyInt(0)]_vars

\* C7: the record a successful create has written has created_at equal to
\* updated_at.
C7_CreatedEqualsUpdated ==
  \A p \in Procs :
    (proc[p].pc = "idle" /\ proc[p].op = "create" /\ proc[p].ret = "ok")
    => DictGet(GetMetaOut(proc[p].task_id), K("created_at"))
         = DictGet(GetMetaOut(proc[p].task_id), K("updated_at"))

\* C8: when update_meta(task_id, updates) returns, get_meta's record has, for
\* every field other than updated_at and those named in updates, the value
\* it had before the call, and no field beyond those.
C8_UpdateFrame ==
  [][\A p \in Procs : \A t \in TaskIds :
       (UpdateSucceeds(p) /\ proc[p].task_id = t)
       => /\ Keys(GetMetaOutIn(worktrees', t)) \subseteq
               Keys(proc[p].pre) \cup Keys(proc[p].updates) \cup {K("updated_at")}
          /\ \A k \in Keys(proc[p].pre) \ (Keys(proc[p].updates) \cup {K("updated_at")}) :
               DictGet(GetMetaOutIn(worktrees', t), k) = DictGet(proc[p].pre, k)]_vars

\* C9: when update_meta returns successfully, the record's updated_at is
\* strictly greater than it was before the call.
C9_UpdatedAtIncreases ==
  [][\A p \in Procs : \A t \in TaskIds :
       (UpdateSucceeds(p) /\ proc[p].task_id = t)
       => TsVal(DictGet(GetMetaOutIn(worktrees', t), K("updated_at")))
            > TsVal(DictGet(proc[p].pre, K("updated_at")))]_vars

\* C10: when update_meta returns successfully, whatever its updates mapping,
\* the record's created_at is what it was before the call.
C10_CreatedAtImmutable ==
  [][\A p \in Procs : \A t \in TaskIds :
       (UpdateSucceeds(p) /\ proc[p].task_id = t)
       => DictGet(GetMetaOutIn(worktrees', t), K("created_at"))
            = DictGet(proc[p].pre, K("created_at"))]_vars

\* Process p's remove returns successfully in this step.
RemoveSucceeds(p) ==
  proc[p].op = "remove" /\ proc[p].pc # "idle" /\ proc'[p].pc = "idle" /\ proc'[p].ret = "ok"

\* Process p calls get_meta in this step (the call returns in the same step).
GetMetaReturns(p) ==
  proc[p].pc = "idle" /\ proc'[p] # proc[p] /\ proc'[p].op = "get_meta"

\* C11: right after a successful remove(task_id), get_meta(task_id) raises
\* WorkspaceNotFoundError; and every get_meta call raises
\* WorkspaceNotFoundError when META.yml is absent from the task's directory
\* and otherwise returns the decoded content of that file.
C11_GetMetaAfterRemove ==
  [][\A p \in Procs :
       /\ RemoveSucceeds(p) =>
            GetMetaRetIn(worktrees', proc[p].task_id) = "WorkspaceNotFoundError"
       /\ GetMetaReturns(p) =>
            LET f == MetaFile(WorktreeOf(proc'[p].task_id)) IN
            IF f = NoFile
            THEN proc'[p].ret = "WorkspaceNotFoundError"
            ELSE proc'[p].ret = "ok" /\ proc'[p].out = _parse_yaml(yaml, f)]_vars

\* A remove of a created workspace has succeeded and get_meta would now raise
\* WorkspaceNotFoundError.
C11_Witness ==
  /\ proc[1].pc = "idle" /\ proc[1].op = "remove" /\ proc[1].ret = "ok"
  /\ GetMetaRet(proc[1].task_id) = "WorkspaceNotFoundError"

\* The task_ids whose workspace has been created and not removed.
Live(ids) == {t \in ids : HasBranch(t) /\ HasDir(t)}

\* C12: when list_workspaces has returned after successful create and remove
\* calls, its result has exactly one record for each task_id created and not
\* removed since, and no other record.
C12_ListIsLiveSet ==
  (proc[1].pc = "idle" /\ proc[1].op = "list_workspaces")
  => /\ Len(proc[1].result) = Cardinality(Live(ListIds))
     /\ {DictGet(proc[1].result[i], K("task_id")) : i \in 1..Len(proc[1].result)}
          = {PyStr(t) : t \in Live(ListIds)}

\* C13: an update_meta call for a task_id whose directory has no META.yml
\* raises WorkspaceNotFoundError in that step and changes no branch and no
\* directory.
C13_UpdateOfMissingWorkspace ==
  [][\A p \in Procs :
       (/\ proc[p].pc = "idle" /\ proc'[p] # proc[p]
        /\ proc'[p].op = "update_meta"
        /\ MetaFile(WorktreeOf(proc'[p].task_id)) = NoFile)
       => /\ proc'[p].pc = "idle"
          /\ proc'[p].ret = "WorkspaceNotFoundError"
          /\ UNCHANGED <<branches, worktrees>>]_vars

\* C14: a remove call for a task_id whose directory is absent raises
\* WorkspaceRemovalError in that step and changes nothing; and a successful
\* remove leaves the directory absent, so the next remove of the same task_id
\* is such a call.
C14_RemoveNotIdempotent ==
  [][\A p \in Procs :
       /\ (/\ proc[p].pc = "idle" /\ proc'[p] # proc[p]
           /\ proc'[p].op = "remove" /\ ~HasDir(proc'[p].task_id))
          => /\ proc'[p].pc = "idle"
             /\ proc'[p].ret = "WorkspaceRemovalError"
             /\ UNCHANGED <<branches, worktrees>>
       /\ RemoveSucceeds(p) => WorktreeOf(proc[p].task_id) \notin DOMAIN worktrees']_vars

\* A remove of an absent workspace has raised WorkspaceRemovalError.
C14_Witness ==
  /\ proc[1].pc = "idle" /\ proc[1].op = "remove"
  /\ proc[1].ret = "WorkspaceRemovalError"
  /\ Absent(proc[1].task_id)
  /\ calls > 2

\* C15: every record create or update_meta is about to write is returned
\* unchanged by the reduced decoder applied to the reduced encoder's text.
C15_ReducedCodecRoundTrip ==
  \A p \in Procs :
    proc[p].pc \in {"write_meta", "update_write"}
    => DictEq(_parse_yaml(FALSE, _write_yaml(FALSE, proc[p].meta)), proc[p].meta)

\* The directory of task_id's workspace exists and holds its branch.
OwnsDir(task_id) ==
  /\ HasDir(task_id)
  /\ worktrees[WorktreeOf(task_id)].branch = BranchOf(task_id)

\* C16: a step of create, update_meta or remove for task_id A leaves, for
\* every other task_id B, B's branch as it was (absent, or present with the
\* same tip) and the directory of B's existing workspace as it was, with the
\* same files.
C16_DifferentTasksIndependent ==
  [][\A p \in Procs :
       (/\ proc'[p] # proc[p]
        /\ proc'[p].op \in {"create", "update_meta", "remove"})
       => \A B \in AllParIds \ {proc'[p].task_id} :
            /\ HasBranch(B) <=> BranchOf(B) \in DOMAIN branches'
            /\ HasBranch(B) => branches'[BranchOf(B)] = branches[BranchOf(B)]
            /\ OwnsDir(B) =>
                 /\ WorktreeOf(B) \in DOMAIN worktrees'
                 /\ worktrees'[WorktreeOf(B)] = worktrees[WorktreeOf(B)]]_vars

\* C17: every step of list_workspaces leaves the branches, their tips, the
\* directories and their files as they were.
C17_ListNeverMutates ==
  [][\A p \in Procs :
       (proc'[p] # proc[p] /\ proc'[p].op = "list_workspaces")
       => UNCHANGED <<branches, worktrees, head>>]_vars

\* list_workspaces has returned a record while the other process was inside
\* an operation that had created a branch.
C17_Witness ==
  /\ proc[1].pc = "idle" /\ proc[1].op = "list_workspaces"
  /\ Len(proc[1].result) > 0
  /\ proc[2].pc \notin {"idle"}
  /\ HasBranch(proc[2].task_id)

\* The branches under the feat/ prefix.
UnderFeatPrefix == {b \in DOMAIN branches : Len(b) > 2 /\ SubSeq(b, 1, 2) = <<"feat", "/">>}

\* C18: list_workspaces visits branches under the feat/ prefix only, and
\* among them every branch whose tip has META.yml; for a
\* visited branch whose tip has META.yml it appends one record whose branch
\* field is the branch's name; a visited branch without the file adds nothing,
\* raises nothing and the remaining branches are still visited.
C18_ListReadsEveryPrefixBranch ==
  [][\A p \in Procs :
       /\ (/\ proc[p].pc = "idle" /\ proc'[p] # proc[p]
           /\ proc'[p].op = "list_workspaces")
          => LET visited == {proc'[p].todo[i] : i \in 1..Len(proc'[p].todo)} IN
             /\ visited \subseteq UnderFeatPrefix
             /\ {b \in UnderFeatPrefix : MetaAtTip(b) # NoFile} \subseteq visited
       /\ (proc[p].pc = "list_show" /\ proc'[p] # proc[p])
          => LET b == Head(proc[p].todo) IN
             /\ proc'[p].ret \in {"none", "ok"}
             /\ proc'[p].pc = "idle" <=> Tail(proc[p].todo) = <<>>
             /\ proc'[p].pc # "idle" => proc'[p].todo = Tail(proc[p].todo)
             /\ IF MetaAtTip(b) = NoFile
                THEN proc'[p].result = proc[p].result
                ELSE /\ Len(proc'[p].result) = Len(proc[p].result) + 1
                     /\ DictGet(proc'[p].result[Len(proc'[p].result)], K("branch"))
                          = PyStr(b)]_vars

\* C19: when update_meta(task_id, ...) returns successfully, whatever its
\* arguments, META.yml at the tip of branch feat/<task_id> is the META.yml of
\* the task's directory.
C19_UpdateIsCommitted ==
  [][\A p \in Procs :
       UpdateSucceeds(p)
       => LET b == BranchOf(proc[p].task_id)
              w == WorktreeOf(proc[p].task_id) IN
          /\ b \in DOMAIN branches'
          /\ w \in DOMAIN worktrees'
          /\ branches'[b].meta = worktrees'[w].file]_vars

\* The commands of create whose failure starts the cleanup.
CreateCommands ==
  {"git_branch", "worktree_add", "parent_commit", "git_add", "git_commit"}

\* C20: every step of the cleanup of a failed create, whether its command
\* succeeds, fails or raises, keeps the original cause, and when the cleanup
\* ends create raises WorkspaceCreationError with that cause, which is a
\* command of create and never a command of the cleanup.
C20_CleanupNeverMasks ==
  [][\A p \in Procs :
       (proc[p].pc \in {"cleanup", "cleanup_branch"} /\ proc'[p] # proc[p])
       => /\ proc'[p].cause = proc[p].cause
          /\ proc[p].cause \in CreateCommands
          /\ proc'[p].pc \in {"cleanup_branch", "idle"}
          /\ proc'[p].pc = "idle" => proc'[p].ret = "WorkspaceCreationError"]_vars

\* A create whose worktree add failed has raised WorkspaceCreationError with
\* that cause although its cleanup failed and left the branch behind.
C20_Witness ==
  /\ proc[1].pc = "idle" /\ proc[1].op = "create"
  /\ proc[1].cleanup_failed
  /\ proc[1].cause = "worktree_add"
  /\ proc[1].ret = "WorkspaceCreationError"
  /\ HasBranch(proc[1].task_id)

\* C21: an operation that has returned normally has had no failing
\* version-control command, other than list_workspaces' `git show` of a
\* META.yml that is absent (the cleanup commands run only in a create that
\* raises).
C21_NoErrorDowngraded ==
  \A p \in Procs :
    (proc[p].pc = "idle" /\ proc[p].ret = "ok") => proc[p].cause = "none"

\* Process p's call returns or raises in this step.
Returns(p) == proc'[p] # proc[p] /\ proc'[p].pc = "idle"

\* C22: create_task answers 409 when the workspace exists at the call;
\* get_task and update_task_status answer 404 when the task_id has no
\* workspace at the call; and every endpoint answers 500 when the manager
\* raises anything other than WorkspaceExistsError or WorkspaceNotFoundError.
C22_BoardStatusCodes ==
  [][\A p \in Procs :
       LET r == proc'[p]
           called == proc[p].pc = "idle" /\ proc'[p] # proc[p]
           other == r.ret \notin {"ok", "WorkspaceExistsError", "WorkspaceNotFoundError"} IN
       /\ (called /\ r.op = "create" /\ HasDir(r.task_id))
          => create_task(r, worktrees') = 409
       /\ (called /\ r.op = "get_meta" /\ ~HasMeta(r.task_id))
          => get_task(r) = 404
       /\ (called /\ r.op = "update_meta" /\ ~HasMeta(r.task_id))
          => update_task_status(r, worktrees') = 404
       /\ (Returns(p) /\ other /\ r.op = "create") => create_task(r, worktrees') = 500
       /\ (Returns(p) /\ other /\ r.op = "get_meta") => get_task(r) = 500
       /\ (Returns(p) /\ other /\ r.op = "remove") => delete_task(r) = 500
       /\ (Returns(p) /\ other /\ r.op = "update_meta" /\ HasMeta(r.task_id))
          => update_task_status(r, worktrees') = 500]_vars

\* C23: the status of every workspace's metadata record is one of backlog,
\* in_progress, review, done, blocked.
C23_StatusInEnum ==
  \A t \in TaskIds :
    HasMeta(t) =>
      DictGet(GetMetaOut(t), K("status")) \in {PyStr(st) : st \in valid_statuses}

\* C24: remove's first step leaves the branches alone; when it does not remove
\* the working tree, remove raises WorkspaceRemovalError in that step and the
\* branch deletion is never reached; the branch deletion runs only after the
\* directory is gone, and when it fails remove raises WorkspaceRemovalError.
C24_RemoveOrder ==
  [][\A p \in Procs :
       /\ (proc[p].pc = "idle" /\ proc'[p] # proc[p] /\ proc'[p].op = "remove")
          => /\ UNCHANGED branches
             /\ IF worktrees' = worktrees
                THEN proc'[p].pc = "idle" /\ proc'[p].ret = "WorkspaceRemovalError"
                ELSE /\ proc'[p].pc = "branch_delete"
                     /\ WorktreeOf(proc'[p].task_id) \notin DOMAIN worktrees'
       /\ (proc[p].pc = "branch_delete" /\ proc'[p] # proc[p])
          => /\ ~HasDir(proc[p].task_id)
             /\ UNCHANGED worktrees
             /\ proc'[p].pc = "idle"
             /\ IF proc'[p].ret = "ok"
                THEN BranchOf(proc[p].task_id) \notin DOMAIN branches'
                ELSE proc'[p].ret = "WorkspaceRemovalError" /\ UNCHANGED branches]_vars

\* A remove of a complete workspace has raised WorkspaceRemovalError at its
\* first step: directory and branch are still there.
C24_Witness ==
  /\ proc[1].pc = "idle" /\ proc[1].op = "remove"
  /\ proc[1].ret = "WorkspaceRemovalError"
  /\ Complete(proc[1].task_id)

\* C25: a remove call without force for a workspace whose working tree has
\* uncommitted changes raises WorkspaceRemovalError in that step and leaves
\* directory and branch as they were; with force it removes the directory in
\* that step and then deletes the branch and returns normally.
C25_ForceNeededWhenDirty ==
  [][\A p \in Procs :
       /\ (/\ proc[p].pc = "idle" /\ proc'[p] # proc[p] /\ proc'[p].op = "remove"
           /\ OwnsDir(proc'[p].task_id) /\ ~Clean(WorktreeOf(proc'[p].task_id)))
          => IF proc'[p].force
             THEN /\ proc'[p].pc = "branch_delete"
                  /\ WorktreeOf(proc'[p].task_id) \notin DOMAIN worktrees'
             ELSE /\ proc'[p].pc = "idle"
                  /\ proc'[p].ret = "WorkspaceRemovalError"
                  /\ UNCHANGED <<branches, worktrees>>
       /\ (proc[p].pc = "branch_delete" /\ proc[p].force /\ proc'[p] # proc[p])
          => /\ proc'[p].pc = "idle" /\ proc'[p].ret = "ok"
             /\ BranchOf(proc[p].task_id) \notin DOMAIN branches'
             /\ WorktreeOf(proc[p].task_id) \notin DOMAIN worktrees']_vars

\* A remove without force has been refused on a working tree whose META.yml
\* was rewritten and not committed.
C25_Witness ==
  /\ proc[1].pc = "idle" /\ proc[1].op = "remove"
  /\ proc[1].ret = "WorkspaceRemovalError"
  /\ OwnsDir(proc[1].task_id)
  /\ ~Clean(WorktreeOf(proc[1].task_id))
  /\ HasBranch(proc[1].task_id)

\* The steps of a create that does not fail, in the order of the code.
CreateOrder ==
  <<"idle", "get_main_branch", "git_branch", "worktree_add", "copy_env",
    "parent_commit", "created_at", "updated_at", "write_meta", "git_add",
    "git_commit">>
Pos(pc) == CHOOSE i \in 1..Len(CreateOrder) : CreateOrder[i] = pc

\* C26: a create call on an existing directory raises WorkspaceExistsError
\* at once with nothing changed; otherwise create's steps follow the order
\* check, probe, branch, working tree, ..., write, stage, commit: the branch
\* exists when the working tree is added, the directory exists when META.yml
\* is written, nothing else changes a branch, a directory or a file, and the
\* commit is the step that returns.
C26_CreateOrder ==
  [][\A p \in Procs :
       (proc'[p] # proc[p] /\ proc'[p].op = "create"
        /\ proc[p].pc \notin {"cleanup", "cleanup_branch"})
       => LET t == proc'[p].task_id
              b == BranchOf(t)
              w == WorktreeOf(t)
              at == proc[p].pc IN
          /\ (at = "idle" /\ HasDir(t))
             => /\ proc'[p].pc = "idle" /\ proc'[p].ret = "WorkspaceExistsError"
                /\ UNCHANGED <<branches, worktrees>>
          /\ proc'[p].pc \notin {"idle", "cleanup"}
             => Pos(proc'[p].pc) = Pos(at) + 1
          /\ proc'[p].pc = "worktree_add" => b \in DOMAIN branches'
          /\ proc'[p].pc = "copy_env" => w \in DOMAIN worktrees'
          /\ branches' # branches => at \in {"git_branch", "git_commit"}
          /\ worktrees' # worktrees => at \in {"worktree_add", "write_meta", "git_add"}
          /\ (at = "worktree_add" /\ worktrees' # worktrees) => HasBranch(t)
          /\ (at = "write_meta" /\ worktrees' # worktrees) => HasDir(t)
          /\ proc'[p].ret = "ok" <=> (at = "git_commit" /\ branches' # branches)]_vars

\* A create has gone through all its steps and returned.
C26_Witness ==
  /\ proc[1].pc = "idle" /\ proc[1].op = "create" /\ proc[1].ret = "ok"
  /\ Complete(proc[1].task_id)

\* C27: every create probes for main when it runs: the base branch it uses is
\* main when main resolves at the probe and master otherwise, whatever an
\* earlier call found, and the branch it creates is a copy of that base
\* branch as it is at that time.
C27_ProbeOnEveryCreate ==
  [][\A p \in Procs :
       /\ (proc[p].pc = "get_main_branch" /\ proc'[p] # proc[p])
          => proc'[p].main_branch =
               IF <<"main">> \in DOMAIN branches THEN <<"main">> ELSE <<"master">>
       /\ (proc[p].pc = "git_branch" /\ proc'[p].pc = "worktree_add")
          => /\ proc[p].main_branch \in DOMAIN branches
             /\ branches'[BranchOf(proc[p].task_id)] = branches[proc[p].main_branch]]_vars

\* A second create has branched from master after main was renamed, an
\* earlier create having branched from main.
C27_Witness ==
  /\ proc[1].pc = "worktree_add"
  /\ proc[1].main_branch = <<"master">>
  /\ HasBranch(proc[1].task_id)
  /\ \E t \in EnvIds \ {proc[1].task_id} : Complete(t)

\* C28: the parent_commit in the record of a successful create is the commit
\* its branch was forked from.
C28_ParentCommitIsForkPoint ==
  \A p \in Procs :
    (proc[p].pc = "idle" /\ proc[p].op = "create" /\ proc[p].ret = "ok")
    => DictGet(GetMetaOut(proc[p].task_id), K("parent_commit"))
         = PyStr(branches[BranchOf(proc[p].task_id)].fork)

\* C29: for each branch it visits, list_workspaces appends the record decoded
\* from META.yml at the tip of the branch, whatever the directories hold and
\* whether or not the branch's directory exists; it appends nothing only when
\* the tip has no META.yml or its `git show` failed.
C29_ListReadsBranchTip ==
  [][\A p \in Procs :
       (proc[p].pc = "list_show" /\ proc'[p] # proc[p])
       => LET b == Head(proc[p].todo) IN
          \/ /\ MetaAtTip(b) # NoFile
             /\ proc'[p].result = Append(proc[p].result,
                  DictSet(_parse_yaml(yaml, MetaAtTip(b)), K("branch"), PyStr(b)))
          \/ /\ proc'[p].result = proc[p].result
             /\ MetaAtTip(b) = NoFile \/ proc'[p].cause = "git_show"]_vars

\* list_workspaces has returned the record of a branch whose directory does
\* not exist.
C29_Witness ==
  /\ proc[1].pc = "idle" /\ proc[1].op = "list_workspaces"
  /\ Len(proc[1].result) = 1
  /\ HasBranch(T1) /\ ~HasDir(T1)
  /\ DictGet(proc[1].result[1], K("branch")) = PyStr(BranchOf(T1))

\* C30: a create whose `git branch` failed has created no branch, and one
\* whose `git branch` or `git worktree add` failed has created no directory:
\* the steps of its cleanup leave the branches, respectively the directories,
\* as they were before the call.
C30_FailedCreateKeepsOldState ==
  [][\A p \in Procs :
       (proc[p].pc \in {"cleanup", "cleanup_branch"} /\ proc'[p] # proc[p])
       => /\ proc[p].cause = "git_branch" => UNCHANGED branches
          /\ proc[p].cause \in {"git_branch", "worktree_add"} => UNCHANGED worktrees]_vars

\* C31: a get_meta, update_meta or remove call for task_id A addresses a
\* directory that is the directory of no other task_id's existing workspace.
C31_DirectoryOfOneTaskOnly ==
  [][\A p \in Procs :
       (/\ proc[p].pc = "idle" /\ proc'[p] # proc[p]
        /\ proc'[p].op \in {"get_meta", "update_meta", "remove"})
       => \A B \in AllParIds \ {proc'[p].task_id} :
            OwnsDir(B) => WorktreeOf(B) # WorktreeOf(proc'[p].task_id)]_vars

\* Two processes update the metadata of one task at the same time, each with
\* its own fields; the first process created the workspace. No command fails
\* for an outside reason.
updates_of(p) ==
  IF p = 1
  THEN <<Item("status", PyStr(<<"review">>)), Item("xp_reward", PyInt(50))>>
  ELSE <<Item("agent", PyStr(<<"qa">>))>>

StepUpd(p) ==
  \/ /\ p = 1
     /\ \E title \in ParTitles, agent \in Agents : create_check(p, T1, title, agent)
  \/ create_body(p)
  \/ cleanup_worktree(p)
  \/ cleanup_branch(p)
  \/ \E commit \in BOOLEAN : update_read(p, T1, updates_of(p), commit)
  \/ update_write(p)
  \/ update_git_add(p)
  \/ update_git_commit(p)

NextUpd == \E p \in Procs : StepUpd(p)

SpecUpd == InitRace /\ [][NextUpd]_vars

\* Both update_meta calls have returned without an exception.
BothUpdated == \A p \in Procs : Quiescent /\ proc[p].op = "update_meta" /\ proc[p].ret = "ok"
\* The record in the workspace holds every field of updates_of(p).
HoldsUpdate(p) ==
  \A i \in 1..Len(updates_of(p)) :
    DictGet(GetMetaOut(T1), updates_of(p)[i].k) = updates_of(p)[i].v

\* C32: after two concurrent update_meta calls on one task_id with disjoint
\* fields have both returned, the metadata record holds both updates.
C32_NoLostUpdate ==
  BothUpdated => HoldsUpdate(1) /\ HoldsUpdate(2)

\* Process q is inside a create that has made `branch` and has not yet made
\* the initial commit.
CreateInFlight(q, branch) ==
  /\ proc[q].op = "create"
  /\ proc[q].pc \in {"worktree_add", "copy_env", "parent_commit", "created_at",
                     "updated_at", "write_meta", "git_add", "git_commit"}
  /\ BranchOf(proc[q].task_id) = branch

\* C33: a list_workspaces step appends no record for a branch that another
\* process's create has made and not yet committed to.
C33_InFlightCreateNotListed ==
  [][\A p \in Procs :
       (/\ proc[p].pc = "list_show"
        /\ Len(proc'[p].result) > Len(proc[p].result))
       => \A q \in Procs \ {p} : ~CreateInFlight(q, Head(proc[p].todo))]_vars

\* ------------------------------------------------------------ daily report

\* generate_daily_report, line 26: timedelta(hours=24), in ticks of the clock.
Hours24 == 1

\* datetime.fromisoformat accepts the strings _now_iso writes; any other
\* string raises ValueError.
fromisoformat_ok(s) ==
  /\ Len(s) > 2
  /\ SubSeq(s, 1, 2) = <<"T", COLON>>
  /\ IsDigit(SubSeq(s, 3, Len(s)))

\* bool(value) of `if created_str:`
truthy(v) == (v.t = "str" /\ v.s # <<>>) \/ (v.t = "int" /\ v.n # 0)

\* Line 31: ws.get("meta", {}): the value under the key "meta", or the empty
\* dict when the record has no such key.
report_meta(ws) == IF K("meta") \in Keys(ws) THEN DictGet(ws, K("meta")) ELSE <<>>

\* Line 32 on a "meta" value that is not a dict: every value of a record is a
\* string, an integer or None, and `.get` on it raises AttributeError outside
\* the try block.
report_aborts(workspaces) ==
  \E i \in 1..Len(workspaces) : K("meta") \in Keys(workspaces[i])

\* Lines 31-40 for one record: the created_at of its "meta" dict is set,
\* parses (a non-string raises inside the try and is skipped) and is later
\* than 24 hours before now.
is_recent(ws, now) ==
  LET created_str == DictGet(report_meta(ws), K("created_at")) IN
  /\ truthy(created_str)
  /\ created_str.t = "str"
  /\ fromisoformat_ok(created_str.s)
  /\ TsVal(created_str) > now - Hours24

\* Lines 29-40: recent
recent(workspaces, now) == SelectSeq(workspaces, LAMBDA ws : is_recent(ws, now))

\* generate_daily_report, lines 20-115, from the return of its
\* list_workspaces call (line 23) on: the steps of that call are list_refs and
\* list_show; this step reads the clock (line 25), filters the records and
\* returns the report, whose tasks.total is len(recent) (line 71).
generate_daily_report(p) ==
  /\ proc[p].pc = "idle"
  /\ proc[p].op = "list_workspaces"
  /\ proc' = [proc EXCEPT ![p] =
       IF report_aborts(proc[p].result)
       THEN [@ EXCEPT !.op = "generate_daily_report", !.ret = "AttributeError"]
       ELSE [@ EXCEPT !.op = "generate_daily_report", !.ret = "ok",
                      !.out = <<Item("total",
                                     PyInt(Len(recent(proc[p].result, clock))))>>]]
  /\ UNCHANGED <<faults, calls, yaml, clock, head, branches, worktrees>>

\* One caller creates and updates workspaces and produces daily reports while
\* time passes; no command fails for an outside reason.
NextReport ==
  \/ Tick
  \/ \E task_id \in EnvIds, title \in ParTitles, agent \in Agents :
       create_check(1, task_id, title, agent)
  \/ create_body(1)
  \/ \E task_id \in EnvIds, updates \in Updates, commit \in BOOLEAN :
       update_read(1, task_id, updates, commit)
  \/ update_write(1)
  \/ update_git_add(1)
  \/ update_git_commit(1)
  \/ list_workspaces(1)
  \/ generate_daily_report(1)

SpecReport == InitRace /\ [][NextReport]_vars

\* The record's own created_at is a timestamp within the last 24 hours.
CreatedWithinDay(ws, now) ==
  LET c == DictGet(ws, K("created_at")) IN
  c.t = "str" /\ fromisoformat_ok(c.s) /\ TsVal(c) > now - Hours24

\* C34: generate_daily_report returns a report whose tasks.total is the
\* number of records of list_workspaces whose created_at is a valid timestamp
\* within the last 24 hours; no record makes it raise.
C34_TotalCountsRecentRecords ==
  [][\A p \in Procs :
       (proc[p].op = "list_workspaces" /\ proc'[p].op = "generate_daily_report")
       => /\ proc'[p].ret = "ok"
          /\ DictGet(proc'[p].out, K("total")) =
               PyInt(Cardinality({i \in 1..Len(proc[p].result) :
                                    CreatedWithinDay(proc[p].result[i], clock)}))]_vars

====
